---- MODULE Spec2Model ----
(***************************************************************************)
(* Model of the extraction-and-assembly engine of aws-diagrams2:           *)
(*   terraform_parser.py    (provider resolver, resource extractor,        *)
(*                           file segmenter)                               *)
(*   terraform_hierarchy.py (hierarchy assembler)                          *)
(*   aws_parent_resources.py, resource_node.py                             *)
(*                                                                         *)
(* The input text is modelled line by line: a text is a sequence of line   *)
(* tokens, each token standing for one line of configuration text that     *)
(* ends with a newline.  The regular expressions of the parser are         *)
(* modelled by what they match on such lines.                              *)
(***************************************************************************)
EXTENDS Integers, Sequences, FiniteSets, TLC

(***************************************************************************)
(* Bounds of the checked inputs.                                           *)
(***************************************************************************)
MaxFiles == 2
MaxBlocks == 3

(***************************************************************************)
(* Lines of text.  k is the kind of line, a and b its captured values.     *)
(*   banner         "================"            (16 or more '=')         *)
(*   fileline       "File: <name>"                                         *)
(*   hashfile       "# File: <name>"                                       *)
(*   provider_open  provider "aws" {                                       *)
(*   region         region = "<a>"                                         *)
(*   alias          alias  = "<a>"                                         *)
(*   resource_open  resource "<a>" "<b>" {                                 *)
(*   provider_ref   provider = aws.<a>                                     *)
(*   attr           any other attribute line, e.g. cidr_block = "..."      *)
(*   close          }                                                      *)
(*   resource_empty resource "<a>" "<b>" {}       (body without a character) *)
(*   data_open      data "<a>" "<b>" {                                     *)
(*   hashfile_noname "# File:"                    (no name on the line)    *)
(*   nested_open    <a> {   or   <a> = {          (opens a sub-block)      *)
(***************************************************************************)
Tok(k, a, b) == [k |-> k, a |-> a, b |-> b]

Banner == Tok("banner", "", "")
FileLine == Tok("fileline", "main.tf", "")
HashFile == Tok("hashfile", "main.tf", "")
ProviderOpen == Tok("provider_open", "", "")
RegionLine(r) == Tok("region", r, "")
AliasLine(al) == Tok("alias", al, "")
ResourceOpen(t, n) == Tok("resource_open", t, n)
ProviderRef(al) == Tok("provider_ref", al, "")
AttrLine == Tok("attr", "", "")
CloseLine == Tok("close", "", "")
EmptyResource(t, n) == Tok("resource_empty", t, n)
DataOpen(t, n) == Tok("data_open", t, n)
NamelessHashFile == Tok("hashfile_noname", "", "")
NestedOpen(a) == Tok("nested_open", a, "")

(***************************************************************************)
(* The inputs that are checked: up to MaxFiles files, each introduced by   *)
(* a file marker, holding up to MaxBlocks provider and resource blocks     *)
(* altogether.                                                             *)
(***************************************************************************)
Regions == {"us-east-1", "us-east-2"}
Aliases == {"a", "b"}
ResourceTypes == {"aws_vpc", "aws_subnet", "aws_ecs_cluster", "aws_security_group"}
ResourceNames == {"main"}

\* provider "aws" { region = "us-east-2" }
DefaultProviderBlock(r) == <<ProviderOpen, RegionLine(r), CloseLine>>
\* provider "aws" { alias = "a"  region = "us-east-1" }
AliasedProviderBlock(al, r) == <<ProviderOpen, AliasLine(al), RegionLine(r), CloseLine>>
\* provider "aws" { alias = "a" }   (no region)
RegionlessProviderBlock(al) == <<ProviderOpen, AliasLine(al), CloseLine>>
\* resource "aws_vpc" "main" { cidr_block = "10.0.0.0/16" }
PlainResourceBlock(t, n) == <<ResourceOpen(t, n), AttrLine, CloseLine>>
\* resource "aws_vpc" "main" { provider = aws.a }
ReferringResourceBlock(t, n, al) == <<ResourceOpen(t, n), ProviderRef(al), CloseLine>>

\* The provider declarations of the inputs: single blocks, and the pair of
\* aliased providers of a multi-region configuration.
ProviderBlocks ==
    {DefaultProviderBlock("us-east-2")}
    \cup {AliasedProviderBlock("a", r) : r \in Regions}
    \cup {AliasedProviderBlock("b", "us-east-2")}
    \cup {RegionlessProviderBlock("a")}
    \cup {AliasedProviderBlock("a", "us-east-1") \o AliasedProviderBlock("b", "us-east-2")}

\* The resource declarations of the inputs.
ResourceBlocks ==
    {PlainResourceBlock(t, n) : t \in ResourceTypes, n \in ResourceNames}
    \cup {ReferringResourceBlock("aws_vpc", n, al) : n \in ResourceNames, al \in Aliases}

Blocks == ProviderBlocks \cup ResourceBlocks

MarkerKinds == {"banner", "hash"}

\* The lines of a file marker of either convention.
Marker(kind) == IF kind = "banner" THEN <<Banner, FileLine, Banner>> ELSE <<HashFile>>

\* The lines of the blocks lo..hi of blks.
RECURSIVE BlockLines(_, _, _)
BlockLines(blks, lo, hi) ==
    IF lo > hi THEN <<>> ELSE blks[lo] \o BlockLines(blks, lo + 1, hi)

\* The text of the files j..f: file j is a marker followed by the blocks
\* after the first starts[j] ones, up to the blocks of the next file.
RECURSIVE FilesText(_, _, _, _)
FilesText(kind, blks, starts, j) ==
    IF j > Len(starts) THEN <<>>
    ELSE Marker(kind)
         \o BlockLines(blks, starts[j] + 1,
                       IF j < Len(starts) THEN starts[j + 1] ELSE Len(blks))
         \o FilesText(kind, blks, starts, j + 1)

\* starts splits n blocks into consecutive files, the first file holding
\* the first block.
IsSplit(starts, n) ==
    /\ Len(starts) = 0 => n = 0
    /\ Len(starts) > 0 => starts[1] = 0
    /\ \A j \in 1..(Len(starts) - 1) : starts[j] <= starts[j + 1]

\* The input is one of the texts of at most MaxFiles files that hold at most
\* MaxBlocks blocks altogether, the markers all of one convention.
IsInput(text) ==
    \E kind \in MarkerKinds, f \in 0..MaxFiles, n \in 0..MaxBlocks :
        \E blks \in [1..n -> Blocks], starts \in [1..f -> 0..n] :
            /\ IsSplit(starts, n)
            /\ text = FilesText(kind, blks, starts, 1)


(***************************************************************************)
(* File segmenter: file_pattern of parse_terraform_files.                  *)
(*   (?:={16,}\nFile:\s+([^\n]+)\n={16,}|#\s*File:\s+([^\n]+))\n           *)
(*   (.*?)(?=\n(?:={16,}|\#\s*File:)|\Z)                                   *)
(***************************************************************************)
\* Number of lines of the marker that starts at line p, 0 when none does.
\* After "# File:" without a name, \s+ runs over the newline and ([^\n]+)
\* takes the next line as the name.
MarkerLen(text, p) ==
    IF p > Len(text) THEN 0
    ELSE IF text[p].k = "hashfile" THEN 1
    ELSE IF text[p].k = "hashfile_noname" THEN (IF p + 1 <= Len(text) THEN 2 ELSE 0)
    ELSE IF /\ p + 2 <= Len(text)
            /\ text[p].k = "banner"
            /\ text[p + 1].k = "fileline"
            /\ text[p + 2].k = "banner"
         THEN 3
    ELSE 0

\* The lookahead \n(?:={16,}|\#\s*File:) : a line that ends the content.
IsStopLine(t) == t.k \in {"banner", "hashfile", "hashfile_noname"}

\* The reluctant (.*?) that starts at line s ends just before the first stop
\* line that is preceded by a newline of the content, which excludes line s
\* itself, or at the end of the text.
ContentEnd(text, s) ==
    LET stops == {e \in (s + 1)..Len(text) : IsStopLine(text[e])}
    IN  IF stops = {} THEN Len(text) + 1
        ELSE CHOOSE e \in stops : \A e2 \in stops : e <= e2

\* A variant of file_pattern that takes the whole text for one file.
file_pattern_whole(text, p) ==
    IF p > Len(text) THEN <<>> ELSE <<SubSeq(text, p, Len(text))>>

\* group(3) of the successive matches of file_pattern, scanning from line p.
RECURSIVE file_pattern(_, _)
file_pattern(text, p) ==
    IF p > Len(text) THEN <<>>
    ELSE LET m == MarkerLen(text, p)
         IN  IF m = 0 THEN file_pattern(text, p + 1)
             ELSE LET s == p + m
                      e == ContentEnd(text, s)
                  IN  <<SubSeq(text, s, e - 1)>> \o file_pattern(text, e)

(***************************************************************************)
(* Python values used by the parser.                                       *)
(***************************************************************************)
\* A dict is a function from its keys; {} is the function of no key.
EmptyDict == <<>>

\* d[k] = v
DictSet(d, k, v) == [x \in DOMAIN d \cup {k} |-> IF x = k THEN v ELSE d[x]]

\* d.update(e)
DictUpdate(d, e) == [x \in DOMAIN d \cup DOMAIN e |-> IF x \in DOMAIN e THEN e[x] ELSE d[x]]

\* re.search of a one-line pattern in a block: the captured value of the
\* first line of that kind, as <<value>>, or <<>> when no line matches.
Search(block_content, kind) ==
    LET hits == {q \in 1..Len(block_content) : block_content[q].k = kind}
    IN  IF hits = {} THEN <<>>
        ELSE <<block_content[CHOOSE q \in hits : \A q2 \in hits : q <= q2].a>>

\* The line holds a "}".
HasCloseBrace(t) == t.k \in {"close", "resource_empty"}

\* The first line with a "}" at or after line p, 0 when there is none: where
\* the group {([^}]+)} of a block pattern ends.  What precedes the "}" on
\* that line matches none of the one-line patterns.
FirstClose(text, p) ==
    LET closes == {q \in p..Len(text) : HasCloseBrace(text[q])}
    IN  IF closes = {} THEN 0
        ELSE CHOOSE q \in closes : \A q2 \in closes : q <= q2

(***************************************************************************)
(* Provider resolver: parse_terraform_providers.                           *)
(***************************************************************************)
\* group(1) of the successive matches of
\*   provider\s+"aws"\s*{([^}]+)}
\* scanning from line p.  The newline after "{" makes the group non-empty.
RECURSIVE provider_pattern(_, _)
provider_pattern(text, p) ==
    IF p > Len(text) THEN <<>>
    ELSE IF text[p].k # "provider_open" THEN provider_pattern(text, p + 1)
    ELSE LET q == FirstClose(text, p + 1)
         IN  IF q = 0 THEN provider_pattern(text, p + 1)
             ELSE <<SubSeq(text, p + 1, q - 1)>> \o provider_pattern(text, q + 1)

\* A variant of the iteration in which an aliased block binds "default" too.
ProviderBlockStep_alias_default(providers, block_content) ==
    LET region_match == Search(block_content, "region")
        alias_match == Search(block_content, "alias")
    IN  IF region_match = <<>> THEN providers
        ELSE IF alias_match # <<>>
             THEN DictSet(DictSet(providers, alias_match[1], region_match[1]),
                          "default", region_match[1])
             ELSE DictSet(providers, "default", region_match[1])

\* One iteration of the loop over the provider blocks.
ProviderBlockStep(providers, block_content) ==
    LET region_match == Search(block_content, "region")
        alias_match == Search(block_content, "alias")
    IN  IF region_match = <<>> THEN providers
        ELSE IF alias_match # <<>>
             THEN DictSet(providers, alias_match[1], region_match[1])
             ELSE DictSet(providers, "default", region_match[1])

RECURSIVE ProviderBlocksLoop(_, _)
ProviderBlocksLoop(matches, providers) ==
    IF matches = <<>> THEN providers
    ELSE ProviderBlocksLoop(Tail(matches), ProviderBlockStep(providers, Head(matches)))

\* "if not providers: providers["default"] = "us-east-1""
SeedDefault(providers) ==
    IF DOMAIN providers = {} THEN DictSet(providers, "default", "us-east-1")
    ELSE providers

parse_terraform_providers(terraform_text) ==
    SeedDefault(ProviderBlocksLoop(provider_pattern(terraform_text, 1), EmptyDict))

(***************************************************************************)
(* aws_parent_resources.py and resource_node.py                            *)
(***************************************************************************)
AWS_PARENT_RESOURCES == {"aws_vpc", "aws_subnet", "aws_ecs_cluster", "aws_ecs_service"}

\* A variant of is_parent_resource that takes every ECS type for a parent.
is_parent_resource_ecs(resource_type) ==
    resource_type \in AWS_PARENT_RESOURCES \cup {"aws_ecs_task_definition"}

is_parent_resource(resource_type) == resource_type \in AWS_PARENT_RESOURCES

\* f"{resource_type}.{resource_name}" : the string as its three parts.
Identifier(resource_type, resource_name) == <<resource_type, ".", resource_name>>

\* identifier.startswith(resource_type + ".")
StartsWith(identifier, resource_type) ==
    /\ Len(identifier) >= 2
    /\ SubSeq(identifier, 1, 2) = <<resource_type, ".">>

ResourceNode(name, identifier, is_parent, region) ==
    [cls |-> "ResourceNode", name |-> name, identifier |-> identifier,
     is_parent |-> is_parent, region |-> region]

\* The outcome of a call that makes a node: the node made, or the exception
\* raised, its message and the fields the message names.
Made(node) == [exc |-> "", message |-> "", fields |-> {}, value |-> <<node>>]
Failed(exc, message, fields) ==
    [exc |-> exc, message |-> message, fields |-> fields, value |-> <<>>]

\* A variant of __post_init__ that accepts every node.
post_init_unchecked(self) == ""

\* __post_init__: the message of the ValueError raised, "" when none is.
\* A name is a string, an identifier a string as the sequence of its parts.
post_init(self) ==
    IF self.name = "" THEN "Resource name cannot be empty"
    ELSE IF self.identifier = <<>> THEN "Resource identifier cannot be empty"
    ELSE ""

\* ResourceNode(**kwargs): the generated __init__, with the default of the
\* field region, and __post_init__.
NewResourceNode(kwargs) ==
    LET missing == {"name", "identifier", "is_parent"} \ DOMAIN kwargs
        self == ResourceNode(kwargs.name, kwargs.identifier, kwargs.is_parent,
                             IF "region" \in DOMAIN kwargs THEN kwargs.region
                             ELSE "us-east-1")
    IN  IF missing # {} THEN Failed("TypeError", "missing required arguments", missing)
        ELSE IF post_init(self) # "" THEN Failed("ValueError", post_init(self), {})
        ELSE Made(self)

\* A variant of to_dict that leaves the region out.
to_dict_without_region(self) ==
    [name |-> self.name, identifier |-> self.identifier, is_parent |-> self.is_parent]

to_dict(self) ==
    [name |-> self.name, identifier |-> self.identifier,
     is_parent |-> self.is_parent, region |-> self.region]

from_dict(data) ==
    LET required_fields == {"name", "identifier", "is_parent"}
        missing_fields == required_fields \ DOMAIN data
    IN  IF missing_fields # {}
        THEN Failed("ValueError", "Missing required fields", missing_fields)
        ELSE NewResourceNode(
                 [name |-> data.name, identifier |-> data.identifier,
                  is_parent |-> data.is_parent,
                  region |-> IF "region" \in DOMAIN data THEN data.region
                             ELSE "us-east-1"])

(***************************************************************************)
(* Resource extractor: parse_terraform_resources_with_providers.           *)
(***************************************************************************)
\* The successive matches of
\*   resource\s+"([^"]+)"\s+"([^"]+)"\s+{([^}]+)}
\* scanning from line p.  "([^"]+)" takes no empty type or name, and
\* {([^}]+)} no body without a character.
ResourceOpens(t) == t.k = "resource_open" /\ t.a # "" /\ t.b # ""

\* A variant of resource_pattern whose body group is greedy, {(.+)}: the
\* body of the first declaration runs to the last "}" of the text.
resource_pattern_greedy(text, p) ==
    LET opens == {q \in p..Len(text) : ResourceOpens(text[q])}
        first == CHOOSE q \in opens : \A q2 \in opens : q <= q2
        closes == {q \in (first + 1)..Len(text) : HasCloseBrace(text[q])}
        last == CHOOSE q \in closes : \A q2 \in closes : q2 <= q
    IN  IF opens = {} THEN <<>>
        ELSE IF closes = {} THEN <<>>
        ELSE <<[resource_type |-> text[first].a, resource_name |-> text[first].b,
                block_content |-> SubSeq(text, first + 1, last - 1)]>>

RECURSIVE resource_pattern(_, _)
resource_pattern(text, p) ==
    IF p > Len(text) THEN <<>>
    ELSE IF ~ResourceOpens(text[p]) THEN resource_pattern(text, p + 1)
    ELSE LET q == FirstClose(text, p + 1)
         IN  IF q = 0 THEN resource_pattern(text, p + 1)
             ELSE <<[resource_type |-> text[p].a, resource_name |-> text[p].b,
                     block_content |-> SubSeq(text, p + 1, q - 1)]>>
                  \o resource_pattern(text, q + 1)

\* provider_match.group(1) if provider_match else "default"
ProviderAlias(block_content) ==
    LET provider_match == Search(block_content, "provider_ref")
    IN  IF provider_match # <<>> THEN provider_match[1] ELSE "default"

\* providers.get(provider_alias) is None
Unresolved(providers, provider_alias) == provider_alias \notin DOMAIN providers

\* A variant of the resolution that falls back to a region of the map.
ResolveRegion_of_map(providers, block_content) ==
    IF ~Unresolved(providers, ProviderAlias(block_content))
    THEN providers[ProviderAlias(block_content)]
    ELSE IF DOMAIN providers # {}
         THEN providers[CHOOSE key \in DOMAIN providers : TRUE]
         ELSE "us-east-1"

\* The region given to a resource whose body is block_content.
ResolveRegion(providers, block_content) ==
    IF Unresolved(providers, ProviderAlias(block_content)) THEN "us-east-1"
    ELSE providers[ProviderAlias(block_content)]

\* The outcome of making the node of one match.
ResourceOf(match, providers) ==
    NewResourceNode(
        [name |-> match.resource_name,
         identifier |-> Identifier(match.resource_type, match.resource_name),
         is_parent |-> is_parent_resource(match.resource_type),
         region |-> ResolveRegion(providers, match.block_content)])

\* The warning printed for one match, if any.
WarningsOf(match, providers) ==
    IF Unresolved(providers, ProviderAlias(match.block_content))
    THEN <<[provider_alias |-> ProviderAlias(match.block_content),
            identifier |-> Identifier(match.resource_type, match.resource_name)]>>
    ELSE <<>>

\* The loop over the matches ends at the first node whose making raises.
RECURSIVE ResourcesLoop(_, _)
ResourcesLoop(matches, providers) ==
    IF matches = <<>> THEN [resources |-> <<>>, printed |-> <<>>, exc |-> ""]
    ELSE LET made == ResourceOf(Head(matches), providers)
             warned == WarningsOf(Head(matches), providers)
             rest == ResourcesLoop(Tail(matches), providers)
         IN  IF made.exc # ""
             THEN [resources |-> <<>>, printed |-> warned, exc |-> made.exc]
             ELSE [resources |-> made.value \o rest.resources,
                   printed |-> warned \o rest.printed,
                   exc |-> rest.exc]

\* The list of resources returned, the warnings printed on the way, and the
\* exception raised, "" when none is.
parse_terraform_resources_with_providers(terraform_text, providers) ==
    ResourcesLoop(resource_pattern(terraform_text, 1), providers)

(***************************************************************************)
(* Hierarchy assembler: create_aws_hierarchy, after the parse.             *)
(***************************************************************************)
\* A node of the tree.  A children mapping is the sequence of its entries
\* in insertion order, each entry a key and the node under that key.
Node(type, name, children) == [type |-> type, name |-> name, children |-> children]

\* A mapping of one entry.
Entry(key, node) == <<[key |-> key, node |-> node]>>

\* "resources = parse_terraform_files(terraform_content)" binds the returned
\* tuple (all_providers, all_resources); the elements visited by
\* "for r in resources" are the elements of that tuple.
ParseResult(providers, resource_list) ==
    <<[cls |-> "dict", value |-> providers], [cls |-> "list", value |-> resource_list]>>

\* r.identifier exists
HasIdentifier(r) == r.cls = "ResourceNode"

\* [r for r in resources if r.identifier.startswith(resource_type + ".")]
SelectByType(resources, resource_type) ==
    LET Test(r) == StartsWith(r.identifier, resource_type)
    IN  SelectSeq(resources, Test)

\* The children entry of a category that is added when records of it exist.
CategoryEntry(resources, resource_type, key, type, name, children) ==
    IF SelectByType(resources, resource_type) # <<>>
    THEN Entry(key, Node(type, name, children))
    ELSE <<>>

\* Lines 130-137: the task definition under the service.
ServiceChildren(resources) ==
    CategoryEntry(resources, "aws_ecs_task_definition", "aws-ecs-task-definition",
                  "aws-ecs-task-definition", "ECS Task Definition", <<>>)

\* Lines 120-128: the service under the cluster.
ClusterChildren(resources) ==
    CategoryEntry(resources, "aws_ecs_service", "aws-ecs-service",
                  "aws-ecs-service", "ECS Service", ServiceChildren(resources))

\* Lines 103-110: the cluster node.
ClusterEntry(resources) ==
    CategoryEntry(resources, "aws_ecs_cluster", "aws-ecs-cluster",
                  "aws-ecs-cluster", "ECS Cluster", ClusterChildren(resources))

\* Lines 93-118: the subnet, and the cluster in the subnet if there is one,
\* otherwise in the VPC.
SubnetAndCluster(resources) ==
    IF SelectByType(resources, "aws_subnet") # <<>>
    THEN Entry("aws-subnet", Node("Subnet", "subnet", ClusterEntry(resources)))
    ELSE ClusterEntry(resources)

\* Lines 48-118: the children of the VPC node.
VpcChildren(resources) ==
    CategoryEntry(resources, "aws_route_table", "aws-route-table",
                  "aws-route-table", "Route Table", <<>>)
    \o CategoryEntry(resources, "aws_route_table_association", "aws-route-table-association",
                     "aws-route-table-association", "Route Table Association", <<>>)
    \o CategoryEntry(resources, "aws_iam_role", "aws-iam-role",
                     "aws-iam-role", "IAM Role", <<>>)
    \o CategoryEntry(resources, "aws_iam_role_policy_attachment",
                     "aws-iam-role-policy-attachment",
                     "aws-iam-role-policy-attachment", "IAM Role Policy Attachment", <<>>)
    \o CategoryEntry(resources, "aws_security_group", "aws-security-group",
                     "aws-security-group", "AWS Security Group", <<>>)
    \o SubnetAndCluster(resources)

\* Lines 19-46: the base structure, and the VPC when VPC records exist.
Hierarchy(resources) ==
    Entry("aws-cloud",
          Node("aws-cloud", "AWS Cloud",
               Entry("region",
                     Node("region", "AWS Region",
                          CategoryEntry(resources, "aws_vpc", "aws-vpc", "VPC", "VPC",
                                        VpcChildren(resources))))))

\* The outcome of a call: the value returned, or the exception raised.
Returned(value) == [exc |-> "", value |-> value]
Raised(exc) == [exc |-> exc, value |-> <<>>]

\* Lines 19-139 on the value bound to "resources".  The first comprehension
\* (line 38) reads r.identifier of every element.
AssembleHierarchy(resources) ==
    IF \E n \in 1..Len(resources) : ~HasIdentifier(resources[n])
    THEN Raised("AttributeError")
    ELSE Returned(Hierarchy(resources))

(***************************************************************************)
(* State of one call create_aws_hierarchy(terraform_content).              *)
(***************************************************************************)
VARIABLES
    terraform_content,  \* the input text
    pc,                 \* "first_pass", "second_pass", "assemble", "done"
    scanned,            \* number of spans the running pass has handled
    all_providers,      \* the Provider Map of parse_terraform_files
    all_resources,      \* the resource list of parse_terraform_files
    printed,            \* the warnings printed so far
    outcome,            \* the outcome of the call, once pc = "done"
    api                 \* a use of the ResourceNode class on its own

vars == <<terraform_content, pc, scanned, all_providers, all_resources, printed, outcome, api>>

\* The spans of the input: group(3) of re.finditer(file_pattern, ...).
Spans == file_pattern(terraform_content, 1)

NoOutcome == [exc |-> "pending", value |-> <<>>]

\* No call of the class has been made and none is to be made.
NoCall ==
    [pc |-> "none", op |-> "", data |-> EmptyDict,
     node |-> Failed("pending", "", {}), dumped |-> <<>>,
     restored |-> Failed("pending", "", {})]

Init ==
    /\ IsInput(terraform_content)
    /\ pc = "first_pass"
    /\ scanned = 0
    /\ all_providers = EmptyDict
    /\ all_resources = <<>>
    /\ printed = <<>>
    /\ outcome = NoOutcome
    /\ api = NoCall

\* parse_terraform_files lines 121-124: one iteration of the first pass.
FirstPassStep ==
    /\ pc = "first_pass"
    /\ scanned < Len(Spans)
    /\ all_providers' = DictUpdate(all_providers, parse_terraform_providers(Spans[scanned + 1]))
    /\ scanned' = scanned + 1
    /\ UNCHANGED <<terraform_content, pc, all_resources, printed, outcome, api>>

\* Line 126: the first pass is over.
FirstPassDone ==
    /\ pc = "first_pass"
    /\ scanned = Len(Spans)
    /\ pc' = "second_pass"
    /\ scanned' = 0
    /\ UNCHANGED <<terraform_content, all_providers, all_resources, printed, outcome, api>>

\* Lines 129-132: one iteration of the second pass.  An exception raised
\* while a node is made ends the call.
SecondPassStep ==
    /\ pc = "second_pass"
    /\ scanned < Len(Spans)
    /\ LET r == parse_terraform_resources_with_providers(Spans[scanned + 1], all_providers)
       IN  /\ printed' = printed \o r.printed
           /\ IF r.exc # ""
              THEN /\ pc' = "done"
                   /\ outcome' = Raised(r.exc)
                   /\ UNCHANGED <<all_resources, scanned>>
              ELSE /\ all_resources' = all_resources \o r.resources
                   /\ scanned' = scanned + 1
                   /\ UNCHANGED <<pc, outcome>>
    /\ UNCHANGED <<terraform_content, all_providers, api>>

\* Line 134: parse_terraform_files returns (all_providers, all_resources).
ParseReturn ==
    /\ pc = "second_pass"
    /\ scanned = Len(Spans)
    /\ pc' = "assemble"
    /\ UNCHANGED <<terraform_content, scanned, all_providers, all_resources, printed, outcome, api>>

\* create_aws_hierarchy lines 17-139.
Assemble ==
    /\ pc = "assemble"
    /\ outcome' = AssembleHierarchy(ParseResult(all_providers, all_resources))
    /\ pc' = "done"
    /\ UNCHANGED <<terraform_content, scanned, all_providers, all_resources, printed, api>>

Next ==
    \/ FirstPassStep
    \/ FirstPassDone
    \/ SecondPassStep
    \/ ParseReturn
    \/ Assemble

Spec == Init /\ [][Next]_vars

(***************************************************************************)
(* The two passes of parse_terraform_files as functions of the spans.      *)
(***************************************************************************)
\* Lines 118-124: all_providers after the first n spans.
RECURSIVE FirstPass(_, _)
FirstPass(spans, n) ==
    IF n = 0 THEN EmptyDict
    ELSE DictUpdate(FirstPass(spans, n - 1), parse_terraform_providers(spans[n]))

\* Lines 129-132: the resources extended by span n, given the providers.
SecondPass(spans, n, providers) ==
    parse_terraform_resources_with_providers(spans[n], providers).resources

(***************************************************************************)
(* Vocabulary of the properties.                                           *)
(***************************************************************************)
\* The fallback region.
FallbackRegion == "us-east-1"

\* The key of the region node of region r, and the label of its VPC node.
RegionKey(r) ==
    CASE r = "us-east-1" -> "region-us-east-1"
      [] r = "us-east-2" -> "region-us-east-2"

VpcLabel(r) ==
    CASE r = "us-east-1" -> "VPC (us-east-1)"
      [] r = "us-east-2" -> "VPC (us-east-2)"

\* The key of the category node of a resource type.
CategoryKey(t) ==
    CASE t = "aws_vpc" -> "aws-vpc"
      [] t = "aws_subnet" -> "aws-subnet"
      [] t = "aws_ecs_cluster" -> "aws-ecs-cluster"
      [] t = "aws_ecs_service" -> "aws-ecs-service"
      [] t = "aws_ecs_task_definition" -> "aws-ecs-task-definition"
      [] t = "aws_route_table" -> "aws-route-table"
      [] t = "aws_route_table_association" -> "aws-route-table-association"
      [] t = "aws_iam_role" -> "aws-iam-role"
      [] t = "aws_iam_role_policy_attachment" -> "aws-iam-role-policy-attachment"
      [] t = "aws_security_group" -> "aws-security-group"

SiblingTypes ==
    {"aws_route_table", "aws_route_table_association", "aws_iam_role",
     "aws_iam_role_policy_attachment", "aws_security_group"}

EcsTypes == {"aws_subnet", "aws_ecs_cluster", "aws_ecs_service", "aws_ecs_task_definition"}

\* The call has returned a tree.
TreeReturned == pc = "done" /\ outcome.exc = ""

\* The returned mapping {"aws-cloud": ...} seen as the children of a node.
Top == Node("", "", outcome.value)

CountChild(node, key) ==
    Cardinality({n \in 1..Len(node.children) : node.children[n].key = key})

HasChild(node, key) == CountChild(node, key) > 0

Child(node, key) ==
    node.children[CHOOSE n \in 1..Len(node.children) : node.children[n].key = key].node

\* The node reached from node by the keys of path exists.
RECURSIVE HasPath(_, _)
HasPath(node, path) ==
    \/ path = <<>>
    \/ /\ HasChild(node, Head(path))
       /\ HasPath(Child(node, Head(path)), Tail(path))

RECURSIVE NodeAt(_, _)
NodeAt(node, path) ==
    IF path = <<>> THEN node ELSE NodeAt(Child(node, Head(path)), Tail(path))

\* The keys of all the nodes below node.
RECURSIVE KeysBelow(_)
KeysBelow(node) ==
    {node.children[n].key : n \in 1..Len(node.children)}
    \cup UNION {KeysBelow(node.children[n].node) : n \in 1..Len(node.children)}

RegionPath(r) == <<"aws-cloud", RegionKey(r)>>
VpcPath(r) == <<"aws-cloud", RegionKey(r), "aws-vpc">>

\* The extracted records of type t resolved to region r.
Records(t, r) ==
    {n \in 1..Len(all_resources) :
        /\ all_resources[n].region = r
        /\ all_resources[n].identifier[1] = t}

RecordsIn(r) == {n \in 1..Len(all_resources) : all_resources[n].region = r}

\* The resource declarations of all the spans, in scan order.
RECURSIVE DeclaredResources(_, _)
DeclaredResources(spans, n) ==
    IF n = 0 THEN <<>>
    ELSE DeclaredResources(spans, n - 1) \o resource_pattern(spans[n], 1)

\* The provider declarations that have a region, of the first n spans, in
\* scan order: the key each binds ("default" without alias) and the region.
Declaration(block_content) ==
    IF Search(block_content, "region") = <<>> THEN <<>>
    ELSE <<[key |-> IF Search(block_content, "alias") = <<>> THEN "default"
                    ELSE Search(block_content, "alias")[1],
            region |-> Search(block_content, "region")[1]]>>

RECURSIVE DeclarationsOf(_)
DeclarationsOf(matches) ==
    IF matches = <<>> THEN <<>>
    ELSE Declaration(Head(matches)) \o DeclarationsOf(Tail(matches))

RECURSIVE Declarations(_, _)
Declarations(spans, n) ==
    IF n = 0 THEN <<>>
    ELSE Declarations(spans, n - 1) \o DeclarationsOf(provider_pattern(spans[n], 1))

DeclaredKeys(decls) == {decls[n].key : n \in 1..Len(decls)}

\* The region of the last declaration of key in decls.
LastDeclared(decls, key) ==
    LET hits == {n \in 1..Len(decls) : decls[n].key = key}
    IN  decls[CHOOSE n \in hits : \A n2 \in hits : n2 <= n].region

\* The number of spans whose providers have been merged into all_providers.
ProvidersScanned == IF pc = "first_pass" THEN scanned ELSE Len(Spans)

(***************************************************************************)
(* Properties of the hierarchy (C1-C4).                                    *)
(***************************************************************************)
\* The cluster node of region r is where the placement rule puts it.
ClusterPlaced(r) ==
    IF Records("aws_subnet", r) # {}
    THEN /\ HasPath(Top, VpcPath(r) \o <<"aws-subnet", "aws-ecs-cluster">>)
         /\ ~HasPath(Top, VpcPath(r) \o <<"aws-ecs-cluster">>)
    ELSE HasPath(Top, VpcPath(r) \o <<"aws-ecs-cluster">>)

\* C1: in the tree returned by create_aws_hierarchy, for every region with a
\* cluster record, the cluster node is a child of the region's subnet node
\* and not of its VPC node when the region has a subnet record, and a direct
\* child of the region's VPC node when it has none.
C1_ClusterUnderSubnet ==
    pc = "done" =>
        \A r \in Regions :
            Records("aws_ecs_cluster", r) # {} => TreeReturned /\ ClusterPlaced(r)

\* C2: for every region and each of the five sibling categories, the
\* category node exists under the region's VPC node if and only if a record
\* of exactly that type has that region.
C2_SiblingIffRecord ==
    pc = "done" =>
        \A r \in Regions, t \in SiblingTypes :
            /\ Records(t, r) # {} =>
                   TreeReturned /\ HasPath(Top, VpcPath(r) \o <<CategoryKey(t)>>)
            /\ (RecordsIn(r) # {} /\ Records(t, r) = {}) =>
                   TreeReturned /\ ~HasPath(Top, VpcPath(r) \o <<CategoryKey(t)>>)

\* C3: for every region that has a record, the tree has exactly one region
\* node under the root and exactly one VPC node under it, whether or not a
\* VPC record exists, and the sibling and ECS nodes of the region are below
\* that VPC node.
C3_VpcNodeUnconditional ==
    pc = "done" =>
        \A r \in Regions :
            RecordsIn(r) # {} =>
                /\ TreeReturned
                /\ HasPath(Top, <<"aws-cloud">>)
                /\ CountChild(NodeAt(Top, <<"aws-cloud">>), RegionKey(r)) = 1
                /\ CountChild(NodeAt(Top, RegionPath(r)), "aws-vpc") = 1
                /\ \A t \in SiblingTypes \cup {"aws_subnet", "aws_ecs_cluster"} :
                       Records(t, r) # {} =>
                           CategoryKey(t) \in KeysBelow(NodeAt(Top, VpcPath(r)))

\* The input declares two aliases bound to us-east-1 and us-east-2, and
\* resources that refer to each of them inline.
MultiRegionInput ==
    \E a1 \in Aliases, a2 \in Aliases :
        LET decls == Declarations(Spans, Len(Spans))
            found == DeclaredResources(Spans, Len(Spans))
        IN  /\ a1 # a2
            /\ {a1, a2} \subseteq DeclaredKeys(decls)
            /\ LastDeclared(decls, a1) = "us-east-1"
            /\ LastDeclared(decls, a2) = "us-east-2"
            /\ \E n \in 1..Len(found) : ProviderAlias(found[n].block_content) = a1
            /\ \E n \in 1..Len(found) : ProviderAlias(found[n].block_content) = a2

\* C4: for such an input the root has the two region nodes, each holds
\* exactly one VPC node labelled with its region, and a category node is
\* below region r only if a record of that category was resolved to r.
C4_MultiRegion ==
    (pc = "done" /\ MultiRegionInput) =>
        /\ TreeReturned
        /\ \A r \in {"us-east-1", "us-east-2"} :
               /\ HasPath(Top, RegionPath(r))
               /\ CountChild(NodeAt(Top, RegionPath(r)), "aws-vpc") = 1
               /\ NodeAt(Top, VpcPath(r)).name = VpcLabel(r)
               /\ \A t \in SiblingTypes \cup EcsTypes :
                      CategoryKey(t) \in KeysBelow(NodeAt(Top, RegionPath(r)))
                          => Records(t, r) # {}

(***************************************************************************)
(* Properties of the provider map and of the resolution (C5-C8).           *)
(***************************************************************************)
SpanOrders(n) ==
    {p \in [1..n -> 1..n] : \A x \in 1..n, y \in 1..n : p[x] = p[y] => x = y}

Permuted(spans, p) == [n \in 1..Len(spans) |-> spans[p[n]]]

\* No key is declared by two spans.
DistinctAliases(spans) ==
    \A x \in 1..Len(spans), y \in 1..Len(spans) :
        x # y => DeclaredKeys(DeclarationsOf(provider_pattern(spans[x], 1)))
                 \cap DeclaredKeys(DeclarationsOf(provider_pattern(spans[y], 1))) = {}

\* The resources of every span get the same regions whatever the order of
\* the spans.
OrderIndependent(spans) ==
    \A p \in SpanOrders(Len(spans)) :
        \A n \in 1..Len(spans) :
            SecondPass(spans, n, FirstPass(spans, Len(spans)))
            = SecondPass(spans, n, FirstPass(Permuted(spans, p), Len(spans)))

\* Every record extracted so far was resolved with the providers of all
\* the spans.
ResolvedWithCompleteMap ==
    /\ pc = "first_pass" => all_resources = <<>>
    /\ pc # "first_pass" =>
           /\ all_providers = FirstPass(Spans, Len(Spans))
           /\ \A n \in 1..Len(all_resources) :
                  LET m == DeclaredResources(Spans, Len(Spans))[n]
                  IN  ProviderAlias(m.block_content) \in DOMAIN all_providers =>
                          all_resources[n].region
                          = all_providers[ProviderAlias(m.block_content)]

\* C5: the provider pass over all spans completes before any resource is
\* resolved, so a resource resolves to the region bound to its alias in the
\* complete Provider Map wherever the alias is declared; reordering spans
\* that declare distinct aliases changes the region of no resource.
C5_ProvidersBeforeResources ==
    /\ ResolvedWithCompleteMap
    /\ (pc = "done" /\ DistinctAliases(Spans)) => OrderIndependent(Spans)

\* C6: after the provider pass every key declared with a region is bound to
\* the region of its last declaration in scan order, and a span without a
\* declaration of a key leaves its binding as it was: after any number of
\* spans the map binds each key declared so far to its last declaration.
C6_LastDeclarationWins ==
    LET decls == Declarations(Spans, ProvidersScanned)
    IN  \A key \in DeclaredKeys(decls) :
            /\ key \in DOMAIN all_providers
            /\ all_providers[key] = LastDeclared(decls, key)

\* C7: the Provider Map returned is {"default": "us-east-1"} when no provider
\* with a region is declared anywhere in the input, and otherwise holds only
\* keys that were declared.
C7_SeededOnlyWhenNoProvider ==
    pc \in {"assemble", "done"} =>
        LET decls == Declarations(Spans, Len(Spans))
        IN  IF decls = <<>>
            THEN all_providers = DictSet(EmptyDict, "default", "us-east-1")
            ELSE DOMAIN all_providers \subseteq DeclaredKeys(decls)

\* The declarations n whose inline provider reference names an alias that is
\* not a key of the Provider Map.
UnresolvedReferences ==
    LET found == DeclaredResources(Spans, Len(Spans))
    IN  {n \in 1..Len(found) :
            /\ Search(found[n].block_content, "provider_ref") # <<>>
            /\ ProviderAlias(found[n].block_content) \notin DOMAIN all_providers}

\* The extraction of C8: every declaration gives its record, the record of
\* an unresolved reference has the fallback region, and one warning is
\* printed for each unresolved reference.
UnresolvedExtracted ==
    LET found == DeclaredResources(Spans, Len(Spans))
    IN  /\ Len(all_resources) = Len(found)
        /\ \A n \in 1..Len(found) :
               all_resources[n].identifier
               = Identifier(found[n].resource_type, found[n].resource_name)
        /\ \A n \in UnresolvedReferences :
               /\ all_resources[n].region = FallbackRegion
               /\ Cardinality({w \in 1..Len(printed) :
                      /\ printed[w].identifier = all_resources[n].identifier
                      /\ printed[w].provider_alias = ProviderAlias(found[n].block_content)})
                  = Cardinality({n2 \in UnresolvedReferences :
                      /\ all_resources[n2].identifier = all_resources[n].identifier
                      /\ ProviderAlias(found[n2].block_content)
                         = ProviderAlias(found[n].block_content)})

\* C8: a resource whose inline provider reference names an undeclared alias
\* does not make the run raise: its record has region us-east-1, exactly one
\* warning is printed for it, the other resources are extracted, and the
\* tree has the resource below the fallback region.
C8_UnresolvedAliasFallback ==
    (pc = "done" /\ UnresolvedReferences # {}) =>
        /\ UnresolvedExtracted
        /\ TreeReturned
        /\ \A n \in UnresolvedReferences :
               /\ HasPath(Top, RegionPath(FallbackRegion))
               /\ CategoryKey(all_resources[n].identifier[1])
                  \in KeysBelow(NodeAt(Top, RegionPath(FallbackRegion)))

(***************************************************************************)
(* Properties of the run as a whole (C9, C10).                             *)
(***************************************************************************)
\* C9: create_aws_hierarchy raises no exception for any input from which
\* the extractor produces a list of records: it returns a tree.
C9_NoException ==
    pc = "done" => outcome.exc = ""

\* The regions the input resolves to: the regions of the Provider Map and
\* the fallback region.
ResolvedRegions ==
    {all_providers[key] : key \in DOMAIN all_providers} \cup {FallbackRegion}

\* C10: for an input without resource declarations the tree is the root and,
\* for each resolved region, a region node holding a VPC node that has no
\* children.
C10_EmptyVpcPerRegion ==
    (pc = "done" /\ DeclaredResources(Spans, Len(Spans)) = <<>>) =>
        /\ TreeReturned
        /\ HasPath(Top, <<"aws-cloud">>)
        /\ \A r \in ResolvedRegions :
               /\ HasPath(Top, VpcPath(r))
               /\ NodeAt(Top, VpcPath(r)).children = <<>>
        /\ \A n \in 1..Len(NodeAt(Top, <<"aws-cloud">>).children) :
               NodeAt(Top, <<"aws-cloud">>).children[n].key
               \in {RegionKey(r) : r \in ResolvedRegions}

(***************************************************************************)
(* Properties of the tree of single-category inputs (C11).                 *)
(***************************************************************************)
\* Every extracted record is a VPC record, and there is one.
OnlyVpcRecords ==
    /\ all_resources # <<>>
    /\ \A n \in 1..Len(all_resources) : all_resources[n].identifier[1] = "aws_vpc"

\* C11: for an input that declares only aws_vpc resources, for every region
\* R a record was resolved to, the root has the child region-R, and that
\* region node has exactly one child, aws-vpc, of type VPC, named "VPC (R)",
\* without children.
C11_BasicVpc ==
    (pc = "done" /\ OnlyVpcRecords) =>
        \A r \in Regions :
            RecordsIn(r) # {} =>
                /\ TreeReturned
                /\ HasPath(Top, RegionPath(r))
                /\ Len(NodeAt(Top, RegionPath(r)).children) = 1
                /\ NodeAt(Top, RegionPath(r)).children[1].key = "aws-vpc"
                /\ NodeAt(Top, RegionPath(r)).children[1].node
                   = Node("VPC", VpcLabel(r), <<>>)

(***************************************************************************)
(* Further families of inputs.  The files of an input may be introduced    *)
(* by markers of different forms.                                          *)
(***************************************************************************)
\* The text of the files j..f, file j introduced by the lines heads[j].
RECURSIVE FilesTextOf(_, _, _, _)
FilesTextOf(heads, blks, starts, j) ==
    IF j > Len(starts) THEN <<>>
    ELSE heads[j]
         \o BlockLines(blks, starts[j] + 1,
                       IF j < Len(starts) THEN starts[j + 1] ELSE Len(blks))
         \o FilesTextOf(heads, blks, starts, j + 1)

\* text is one of the texts of at most MaxFiles files, each introduced by
\* one of forms, that hold at most MaxBlocks of blocks altogether.
IsInputOf(text, forms, blocks) ==
    \E f \in 0..MaxFiles, n \in 0..MaxBlocks :
        \E blks \in [1..n -> blocks], starts \in [1..f -> 0..n], heads \in [1..f -> forms] :
            /\ IsSplit(starts, n)
            /\ text = FilesTextOf(heads, blks, starts, 1)

\* The state in which create_aws_hierarchy is entered.
Entered ==
    /\ pc = "first_pass"
    /\ scanned = 0
    /\ all_providers = EmptyDict
    /\ all_resources = <<>>
    /\ printed = <<>>
    /\ outcome = NoOutcome
    /\ api = NoCall

\* data "aws_vpc" "main" { ... }
DataBlock(t, n) == <<DataOpen(t, n), AttrLine, CloseLine>>
\* resource "aws_vpc" "main" {}
EmptyResourceBlock(t, n) == <<EmptyResource(t, n)>>

\* Inputs over the resource types of the catalogue: the parent types, the
\* task definition and one sibling category, with a declaration of empty
\* body and a data block.
CatalogTypes ==
    AWS_PARENT_RESOURCES \cup {"aws_ecs_task_definition", "aws_security_group"}

CatalogBlocks ==
    {PlainResourceBlock(t, n) : t \in CatalogTypes, n \in ResourceNames}
    \cup {EmptyResourceBlock("aws_vpc", n) : n \in ResourceNames}
    \cup {DataBlock("aws_vpc", n) : n \in ResourceNames}

CatalogInit ==
    /\ IsInputOf(terraform_content, {Marker("hash")}, CatalogBlocks)
    /\ Entered

CatalogSpec == CatalogInit /\ [][Next]_vars

(***************************************************************************)
(* Properties of the ECS nesting (C12).                                    *)
(***************************************************************************)
\* The number of nodes below node that have the key.
RECURSIVE Occurrences(_, _)
Occurrences(node, key) ==
    IF node.children = <<>> THEN 0
    ELSE LET first == node.children[1]
         IN  (IF first.key = key THEN 1 ELSE 0)
             + Occurrences(first.node, key)
             + Occurrences(Node(node.type, node.name, Tail(node.children)), key)

\* The places of the cluster node of region r.
ClusterPaths(r) ==
    {VpcPath(r) \o <<"aws-ecs-cluster">>,
     VpcPath(r) \o <<"aws-subnet", "aws-ecs-cluster">>}

\* Below the cluster node at path p of region r: the service node if and
\* only if r has a service record; the task definition node under it if and
\* only if r has a service record and a task definition record; and no
\* service or task definition node elsewhere in the region.
EcsNested(r, p) ==
    LET cluster == NodeAt(Top, p)
        service == Records("aws_ecs_service", r) # {}
        task == Records("aws_ecs_task_definition", r) # {}
    IN  /\ HasChild(cluster, "aws-ecs-service") <=> service
        /\ HasPath(cluster, <<"aws-ecs-service", "aws-ecs-task-definition">>)
               <=> (service /\ task)
        /\ Occurrences(NodeAt(Top, RegionPath(r)), "aws-ecs-service")
           = CountChild(cluster, "aws-ecs-service")
        /\ Occurrences(NodeAt(Top, RegionPath(r)), "aws-ecs-task-definition")
           = IF HasChild(cluster, "aws-ecs-service")
             THEN CountChild(Child(cluster, "aws-ecs-service"), "aws-ecs-task-definition")
             ELSE 0

\* C12: in the tree returned for an input with a cluster record in region r,
\* the region has a cluster node, the service node is under it if and only
\* if r has a service record, the task definition node is under that service
\* node if and only if r also has a task definition record, and service and
\* task definition records give nodes nowhere else.
C12_EcsNesting ==
    pc = "done" =>
        \A r \in Regions :
            Records("aws_ecs_cluster", r) # {} =>
                /\ TreeReturned
                /\ \E p \in ClusterPaths(r) : HasPath(Top, p)
                /\ \A p \in ClusterPaths(r) : HasPath(Top, p) => EcsNested(r, p)

(***************************************************************************)
(* Properties of the extraction (C13, C14).                                *)
(***************************************************************************)
\* The line is a resource declaration, with or without a body.
IsDeclaration(t) == t.k \in {"resource_open", "resource_empty"}

\* The resource declarations written in the first n spans, in the order of
\* the spans and then of the lines: the type and local name of each.
RECURSIVE WrittenIn(_)
WrittenIn(span) ==
    IF span = <<>> THEN <<>>
    ELSE (IF IsDeclaration(Head(span))
          THEN <<[resource_type |-> Head(span).a, resource_name |-> Head(span).b]>>
          ELSE <<>>)
         \o WrittenIn(Tail(span))

RECURSIVE Written(_, _)
Written(spans, n) ==
    IF n = 0 THEN <<>> ELSE Written(spans, n - 1) \o WrittenIn(spans[n])

\* C13: the list returned by parse_terraform_files has exactly one record
\* for each resource declaration written in a span, in the order of the
\* spans and of the declarations in a span, named by the local name and
\* identified by "<type>.<name>"; no other block gives a record.
C13_OneRecordPerDeclaration ==
    pc \in {"assemble", "done"} =>
        LET written == Written(Spans, Len(Spans))
        IN  /\ Len(all_resources) = Len(written)
            /\ \A n \in 1..Len(written) :
                   /\ all_resources[n].name = written[n].resource_name
                   /\ all_resources[n].identifier
                      = <<written[n].resource_type, ".", written[n].resource_name>>

\* C14: the is_parent flag of every extracted record is true if and only if
\* the declared type is one of aws_vpc, aws_subnet, aws_ecs_cluster and
\* aws_ecs_service.
C14_ParentFlag ==
    \A n \in 1..Len(all_resources) :
        all_resources[n].is_parent
        <=> DeclaredResources(Spans, Len(Spans))[n].resource_type
            \in {"aws_vpc", "aws_subnet", "aws_ecs_cluster", "aws_ecs_service"}

\* The run has extracted a service record flagged as parent, and a task
\* definition record and a security group record flagged as no parent.
C14_Witness ==
    /\ pc = "done"
    /\ \E n \in 1..Len(all_resources) :
           /\ all_resources[n].identifier[1] = "aws_ecs_service"
           /\ all_resources[n].is_parent
    /\ \E n \in 1..Len(all_resources) :
           /\ all_resources[n].identifier[1] = "aws_ecs_task_definition"
           /\ ~all_resources[n].is_parent
    /\ \E n \in 1..Len(all_resources) :
           /\ all_resources[n].identifier[1] = "aws_security_group"
           /\ ~all_resources[n].is_parent

(***************************************************************************)
(* Inputs of the segmentation: files introduced by markers of either       *)
(* convention, in any mixture, or by a malformed marker: a banner alone, a *)
(* banner and a "File:" line without the closing banner, "# File:" without *)
(* a name.  The files hold resource declarations and stray lines.          *)
(***************************************************************************)
MalformedMarkers == {<<Banner>>, <<Banner, FileLine>>, <<NamelessHashFile>>}

MarkerForms == {Marker(kind) : kind \in MarkerKinds} \cup MalformedMarkers

SegmentBlocks == {PlainResourceBlock("aws_vpc", n) : n \in ResourceNames} \cup {<<AttrLine>>}

SegmentInit ==
    /\ IsInputOf(terraform_content, MarkerForms, SegmentBlocks)
    /\ Entered

SegmentSpec == SegmentInit /\ [][Next]_vars

(***************************************************************************)
(* Properties of the segmentation (C15, C16).                              *)
(***************************************************************************)
\* The number of lines of the marker of either convention written at line
\* p: "# File: <name>", or a banner, "File: <name>" and a banner; 0 when no
\* marker is written there.
WrittenMarker(text, p) ==
    IF p > Len(text) THEN 0
    ELSE IF text[p] = HashFile THEN 1
    ELSE IF p + 2 <= Len(text) /\ SubSeq(text, p, p + 2) = <<Banner, FileLine, Banner>>
         THEN 3
    ELSE 0

\* The first line at or after s where a marker is written, or the line after
\* the last.
NextMarker(text, s) ==
    LET starts == {q \in s..Len(text) : WrittenMarker(text, q) > 0}
    IN  IF starts = {} THEN Len(text) + 1
        ELSE CHOOSE q \in starts : \A q2 \in starts : q <= q2

\* The content of each marker written at or after line p: the lines from
\* just after the marker to just before the next marker.
RECURSIVE ContentsOfMarkers(_, _)
ContentsOfMarkers(text, p) ==
    IF p > Len(text) THEN <<>>
    ELSE LET m == WrittenMarker(text, p)
         IN  IF m = 0 THEN ContentsOfMarkers(text, p + 1)
             ELSE <<SubSeq(text, p + m, NextMarker(text, p + m) - 1)>>
                  \o ContentsOfMarkers(text, NextMarker(text, p + m))

LinesOfKind(text, kind) == {q \in 1..Len(text) : text[q].k = kind}

\* Every banner line and every "File:" line of the text is part of a whole
\* marker, and every "# File:" line has a name.
WellMarked(text) ==
    /\ LinesOfKind(text, "hashfile_noname") = {}
    /\ Cardinality(LinesOfKind(text, "banner"))
       = 2 * Cardinality(LinesOfKind(text, "fileline"))
    /\ \A q \in LinesOfKind(text, "fileline") :
           q > 1 /\ WrittenMarker(text, q - 1) = 3

\* C15: for a text whose markers are all whole, of either convention and in
\* any mixture, the spans are the contents of the markers, each from just
\* after its marker to just before the next marker or the end of the text,
\* and the list returned has the resources of every one of them.
C15_Segmentation ==
    WellMarked(terraform_content) =>
        /\ Spans = ContentsOfMarkers(terraform_content, 1)
        /\ pc \in {"assemble", "done"} =>
               Len(all_resources)
               = Len(Written(ContentsOfMarkers(terraform_content, 1),
                             Len(ContentsOfMarkers(terraform_content, 1))))

\* C16: a text in which no whole marker is written, only malformed or
\* partial ones, has no span, and the run extracts no resource from the
\* declarations that follow them.
C16_MalformedMarker ==
    (/\ terraform_content # <<>>
     /\ NextMarker(terraform_content, 1) > Len(terraform_content)) =>
        /\ Spans = <<>>
        /\ all_resources = <<>>

(***************************************************************************)
(* Properties of the order of the tree (C17).                              *)
(***************************************************************************)
\* The place of a region key in the ascending order of the region strings.
RegionRank(key) ==
    CASE key = "region-us-east-1" -> 1
      [] key = "region-us-east-2" -> 2
      [] OTHER -> 0

\* C17: when records were resolved to both regions, in whatever order, the
\* children of the root are the two region nodes, region-us-east-1 before
\* region-us-east-2.
C17_RegionsAscending ==
    (pc = "done" /\ \A r \in Regions : RecordsIn(r) # {}) =>
        /\ TreeReturned
        /\ HasPath(Top, <<"aws-cloud">>)
        /\ LET regions == NodeAt(Top, <<"aws-cloud">>).children
           IN  /\ \A r \in Regions : \E n \in 1..Len(regions) : regions[n].key = RegionKey(r)
               /\ \A n \in 1..Len(regions), n2 \in 1..Len(regions) :
                      n < n2 => RegionRank(regions[n].key) < RegionRank(regions[n2].key)

(***************************************************************************)
(* Uses of the ResourceNode class on its own: a node is made from keyword  *)
(* arguments or from a dictionary, turned into a dictionary and made again *)
(* from it.  The runs of this specification are those uses, and the calls  *)
(* of create_aws_hierarchy on declarations with or without a type and a    *)
(* local name.                                                             *)
(***************************************************************************)
\* A field that is absent, <<>>, or present with a value, <<value>>.
NameChoices == {<<>>, <<"">>, <<"main">>}
IdentifierChoices == {<<>>, << <<>> >>, <<Identifier("aws_vpc", "main")>>}
ParentChoices == {<<>>, <<TRUE>>, <<FALSE>>}
RegionChoices == {<<>>} \cup {<<r>> : r \in Regions}

\* The dictionary of the fields that are present.
Field(key, choice) == IF choice = <<>> THEN EmptyDict ELSE DictSet(EmptyDict, key, choice[1])

DictOf(name, identifier, is_parent, region) ==
    DictUpdate(DictUpdate(Field("name", name), Field("identifier", identifier)),
               DictUpdate(Field("is_parent", is_parent), Field("region", region)))

\* A call of the class on data is to be made.
Call(data) ==
    [pc |-> "call", op |-> "", data |-> data,
     node |-> Failed("pending", "", {}), dumped |-> <<>>,
     restored |-> Failed("pending", "", {})]

NodeBlocks ==
    {PlainResourceBlock(t, n) : t \in {"aws_vpc", ""}, n \in {"main", ""}}

NodeInit ==
    \/ /\ IsInputOf(terraform_content, {Marker("hash")}, NodeBlocks)
       /\ Entered
    \/ /\ terraform_content = <<>>
       /\ pc = "idle"
       /\ scanned = 0
       /\ all_providers = EmptyDict
       /\ all_resources = <<>>
       /\ printed = <<>>
       /\ outcome = NoOutcome
       /\ \E name \in NameChoices, identifier \in IdentifierChoices,
             is_parent \in ParentChoices, region \in RegionChoices :
              api = Call(DictOf(name, identifier, is_parent, region))

pipeline == <<terraform_content, pc, scanned, all_providers, all_resources, printed, outcome>>

\* ResourceNode(**data)
Construct ==
    /\ api.pc = "call"
    /\ api' = [api EXCEPT !.pc = "made", !.op = "init", !.node = NewResourceNode(api.data)]
    /\ UNCHANGED pipeline

\* ResourceNode.from_dict(data)
FromDict ==
    /\ api.pc = "call"
    /\ api' = [api EXCEPT !.pc = "made", !.op = "from_dict", !.node = from_dict(api.data)]
    /\ UNCHANGED pipeline

\* node.to_dict()
ToDict ==
    /\ api.pc = "made"
    /\ api.node.exc = ""
    /\ api' = [api EXCEPT !.pc = "dumped", !.dumped = <<to_dict(api.node.value[1])>>]
    /\ UNCHANGED pipeline

\* ResourceNode.from_dict(node.to_dict())
Restore ==
    /\ api.pc = "dumped"
    /\ api' = [api EXCEPT !.pc = "restored", !.restored = from_dict(api.dumped[1])]
    /\ UNCHANGED pipeline

NodeNext ==
    \/ Next
    \/ Construct
    \/ FromDict
    \/ ToDict
    \/ Restore

NodeSpec == NodeInit /\ [][NodeNext]_vars

(***************************************************************************)
(* Properties of the ResourceNode class (C19, C20).                        *)
(***************************************************************************)
\* The call of the class has been made, by the operation op.
Called(op) == api.pc \in {"made", "dumped", "restored"} /\ api.op = op

\* The data give the three required fields.
Complete(data) == {"name", "identifier", "is_parent"} \subseteq DOMAIN data

\* The data give a name or an identifier that is empty.
EmptyField(data) == data.name = "" \/ data.identifier = <<>>

\* C19: making a ResourceNode with an empty name or an empty identifier
\* fails with ValueError and gives no node, and making it with neither empty
\* gives the node; every node the extraction has made has a name and an
\* identifier that are not empty; and a node made without a region has the
\* region us-east-1.
C19_NodeValidation ==
    /\ (Called("init") /\ Complete(api.data)) =>
           IF EmptyField(api.data)
           THEN api.node.exc = "ValueError" /\ api.node.value = <<>>
           ELSE /\ api.node.exc = ""
                /\ api.node.value[1].name = api.data.name
                /\ api.node.value[1].identifier = api.data.identifier
                /\ "region" \notin DOMAIN api.data =>
                       api.node.value[1].region = "us-east-1"
    /\ \A n \in 1..Len(all_resources) :
           all_resources[n].name # "" /\ all_resources[n].identifier # <<>>
    /\ pc = "done" => outcome.exc # "ValueError"

\* A node with an empty name was asked for, and ValueError was raised.
C19_Witness ==
    /\ Called("init")
    /\ Complete(api.data)
    /\ api.data.name = ""
    /\ api.node.exc = "ValueError"

\* C20: the node made again from the dictionary of a node is equal to the
\* node; a node made from a dictionary without region has the region
\* us-east-1; making a node from a dictionary that lacks any of name,
\* identifier and is_parent fails with ValueError, naming the fields that
\* are missing.
C20_DictRoundTrip ==
    /\ api.pc = "restored" =>
           /\ api.restored.exc = ""
           /\ api.restored.value[1] = api.node.value[1]
    /\ (Called("from_dict") /\ Complete(api.data) /\ ~EmptyField(api.data)) =>
           /\ api.node.exc = ""
           /\ api.node.value[1].region
              = IF "region" \in DOMAIN api.data THEN api.data.region ELSE "us-east-1"
    /\ (Called("from_dict") /\ ~Complete(api.data)) =>
           /\ api.node.exc = "ValueError"
           /\ api.node.message = "Missing required fields"
           /\ api.node.fields = {"name", "identifier", "is_parent"} \ DOMAIN api.data
           /\ api.node.value = <<>>

\* A node of region us-east-2 was turned into a dictionary and made again
\* from it.
C20_Witness ==
    /\ api.pc = "restored"
    /\ api.node.value[1].region = "us-east-2"
    /\ api.restored.value = api.node.value

(***************************************************************************)
(* Properties of the tree of the empty input (C21).                        *)
(***************************************************************************)
\* C21: for the empty text create_aws_hierarchy returns a tree whose only
\* key is aws-cloud, the children of that root being empty.
C21_EmptyInput ==
    (pc = "done" /\ terraform_content = <<>>) =>
        /\ TreeReturned
        /\ Len(outcome.value) = 1
        /\ outcome.value[1].key = "aws-cloud"
        /\ outcome.value[1].node.children = <<>>

(***************************************************************************)
(* Inputs of the provider resolution: provider blocks without alias, with  *)
(* an alias, and without region, and resources with and without an inline  *)
(* provider reference.                                                     *)
(***************************************************************************)
ProviderSpecBlocks ==
    {DefaultProviderBlock("us-east-2"),
     AliasedProviderBlock("a", "us-east-1"),
     AliasedProviderBlock("a", "us-east-2"),
     RegionlessProviderBlock("a"),
     PlainResourceBlock("aws_vpc", "main"),
     ReferringResourceBlock("aws_vpc", "main", "a")}

ProviderInit ==
    /\ IsInputOf(terraform_content, {Marker("hash")}, ProviderSpecBlocks)
    /\ Entered

ProviderSpec == ProviderInit /\ [][Next]_vars

(***************************************************************************)
(* Properties of the provider blocks of one span (C22).                    *)
(***************************************************************************)
\* The provider blocks written in a span: for each "provider "aws" {" line,
\* the alias and the region written before the closing brace, <<>> when
\* none is written.
WrittenLine(span, p, kind) ==
    LET end == CHOOSE q \in p..(Len(span) + 1) :
                   /\ q > Len(span) \/ span[q].k = "close"
                   /\ \A q2 \in p..(q - 1) : span[q2].k # "close"
        lines == {q \in p..(end - 1) : span[q].k = kind}
    IN  IF lines = {} THEN <<>>
        ELSE <<span[CHOOSE q \in lines : \A q2 \in lines : q <= q2].a>>

WrittenProviders(span) ==
    LET opens == {p \in 1..Len(span) : span[p].k = "provider_open"}
    IN  [p \in opens |-> [alias |-> WrittenLine(span, p, "alias"),
                          region |-> WrittenLine(span, p, "region")]]

\* The key a written provider block binds.
BoundKey(block) == IF block.alias = <<>> THEN "default" ELSE block.alias[1]

\* The last block of the span that has a region and binds key.
LastBinding(span, key) ==
    LET blocks == WrittenProviders(span)
        binding == {p \in DOMAIN blocks :
                       blocks[p].region # <<>> /\ BoundKey(blocks[p]) = key}
    IN  IF binding = {} THEN <<>>
        ELSE blocks[CHOOSE p \in binding : \A p2 \in binding : p2 <= p].region

\* C22: the map that parse_terraform_providers gives for one span has a key
\* only for a block with a region: "default" bound to the region of the
\* last such block without alias, each alias bound to the region of the
\* last such block with that alias; a block without region and a block with
\* an alias leave "default" as it is.  A span without any block with a
\* region gives the seeded map.
C22_BlockBindings ==
    (pc # "first_pass" /\ Len(Spans) = 1) =>
        LET span == Spans[1]
            keys == {key \in {"default"} \cup Aliases : LastBinding(span, key) # <<>>}
        IN  IF keys = {}
            THEN all_providers = DictSet(EmptyDict, "default", "us-east-1")
            ELSE /\ DOMAIN all_providers = keys
                 /\ \A key \in keys : all_providers[key] = LastBinding(span, key)[1]

\* The span has a block without region, a block without alias and a block
\* with an alias, and the map binds "default" and the alias to different
\* regions.
C22_Witness ==
    /\ pc = "done"
    /\ Len(Spans) = 1
    /\ \E p \in DOMAIN WrittenProviders(Spans[1]) : WrittenProviders(Spans[1])[p].region = <<>>
    /\ DOMAIN all_providers = {"default", "a"}
    /\ all_providers["default"] = "us-east-2"
    /\ all_providers["a"] = "us-east-1"

(***************************************************************************)
(* Properties of the resolution without inline reference (C23).            *)
(***************************************************************************)
\* The records of the declarations that have no inline provider reference.
WithoutReference ==
    {n \in 1..Len(all_resources) :
        \A q \in 1..Len(DeclaredResources(Spans, Len(Spans))[n].block_content) :
            DeclaredResources(Spans, Len(Spans))[n].block_content[q].k # "provider_ref"}

\* C23: the record of a declaration without inline provider reference has
\* the region bound to "default" in the map of all the spans when the map
\* has that key, and us-east-1 when it has not, whatever the aliases bind.
C23_DefaultResolution ==
    pc # "first_pass" =>
        \A n \in WithoutReference :
            all_resources[n].region
            = IF "default" \in DOMAIN all_providers THEN all_providers["default"]
              ELSE "us-east-1"

\* The map binds only an alias, to us-east-2, and a resource without inline
\* reference has the region us-east-1.
C23_Witness ==
    /\ pc = "done"
    /\ DOMAIN all_providers = {"a"}
    /\ all_providers["a"] = "us-east-2"
    /\ \E n \in WithoutReference : all_resources[n].region = "us-east-1"

(***************************************************************************)
(* Inputs with nested sub-blocks: resources whose body holds a sub-block,  *)
(* with an inline provider reference before or after it or without one.    *)
(***************************************************************************)
\* resource "aws_security_group" "main" { name = ...  ingress { ... } }
NestedResourceBlock(t, n) ==
    <<ResourceOpen(t, n), AttrLine, NestedOpen("ingress"), AttrLine, CloseLine, CloseLine>>
\* resource "aws_vpc" "main" { tags = { ... }  provider = aws.a }
ReferenceAfterNested(t, n, al) ==
    <<ResourceOpen(t, n), NestedOpen("tags"), AttrLine, CloseLine, ProviderRef(al), CloseLine>>
\* resource "aws_vpc" "main" { provider = aws.a  tags = { ... } }
ReferenceBeforeNested(t, n, al) ==
    <<ResourceOpen(t, n), ProviderRef(al), NestedOpen("tags"), AttrLine, CloseLine, CloseLine>>

NestedBlocks ==
    {AliasedProviderBlock("a", "us-east-2"),
     NestedResourceBlock("aws_security_group", "main"),
     ReferenceAfterNested("aws_vpc", "main", "a"),
     ReferenceBeforeNested("aws_ecs_cluster", "main", "a"),
     PlainResourceBlock("aws_subnet", "main")}

NestedInit ==
    /\ IsInputOf(terraform_content, {Marker("hash")}, NestedBlocks)
    /\ Entered

NestedSpec == NestedInit /\ [][Next]_vars

(***************************************************************************)
(* Properties of the resources with nested sub-blocks (C24, C25).          *)
(***************************************************************************)
\* The lines of the declaration written at line p of the span: up to the
\* brace that closes it, counting the braces of the sub-blocks.
RECURSIVE ClosingLine(_, _, _)
ClosingLine(span, q, depth) ==
    IF q > Len(span) THEN q
    ELSE IF span[q].k = "nested_open" THEN ClosingLine(span, q + 1, depth + 1)
    ELSE IF span[q].k = "close"
         THEN IF depth = 0 THEN q ELSE ClosingLine(span, q + 1, depth - 1)
    ELSE ClosingLine(span, q + 1, depth)

\* The declarations written in a span with the lines of their bodies.
RECURSIVE WrittenBodiesIn(_, _)
WrittenBodiesIn(span, p) ==
    IF p > Len(span) THEN <<>>
    ELSE IF span[p].k = "resource_open"
         THEN <<[resource_type |-> span[p].a, resource_name |-> span[p].b,
                 body |-> SubSeq(span, p + 1, ClosingLine(span, p + 1, 0) - 1)]>>
              \o WrittenBodiesIn(span, ClosingLine(span, p + 1, 0) + 1)
    ELSE WrittenBodiesIn(span, p + 1)

RECURSIVE WrittenBodies(_, _)
WrittenBodies(spans, n) ==
    IF n = 0 THEN <<>> ELSE WrittenBodies(spans, n - 1) \o WrittenBodiesIn(spans[n], 1)

HasNested(body) == \E q \in 1..Len(body) : body[q].k = "nested_open"

\* C24: every declaration, with or without sub-blocks in its body, gives
\* exactly one record, of its type and name, and so do the declarations that
\* follow a declaration with sub-blocks: the records are those of the
\* declarations written, in their order.
C24_NestedBlocks ==
    pc \in {"assemble", "done"} =>
        LET written == WrittenBodies(Spans, Len(Spans))
        IN  /\ Len(all_resources) = Len(written)
            /\ \A n \in 1..Len(written) :
                   /\ all_resources[n].name = written[n].resource_name
                   /\ all_resources[n].identifier
                      = <<written[n].resource_type, ".", written[n].resource_name>>

\* A declaration with a sub-block is followed by another declaration in the
\* same span, and both have their records.
C24_Witness ==
    /\ pc = "done"
    /\ Len(Spans) = 1
    /\ Len(all_resources) >= 2
    /\ HasNested(WrittenBodies(Spans, 1)[1].body)
    /\ all_resources[1].identifier = <<"aws_security_group", ".", "main">>
    /\ all_resources[2].identifier = <<"aws_subnet", ".", "main">>

\* The alias of the inline provider reference written in a body, <<>> when
\* the body has none.
WrittenReference(body) ==
    LET refs == {q \in 1..Len(body) : body[q].k = "provider_ref"}
    IN  IF refs = {} THEN <<>>
        ELSE <<body[CHOOSE q \in refs : \A q2 \in refs : q <= q2].a>>

\* C25: the record of a declaration whose body has an inline provider
\* reference, before or after a sub-block, has the region the map binds to
\* the alias referred to; the record of a declaration whose body has none
\* is resolved by "default", whatever the declarations after it refer to.
C25_ReferenceAnywhere ==
    pc \in {"assemble", "done"} =>
        LET written == WrittenBodies(Spans, Len(Spans))
        IN  /\ Len(all_resources) = Len(written)
            /\ \A n \in 1..Len(written) :
                   LET reference == WrittenReference(written[n].body)
                       key == IF reference = <<>> THEN "default" ELSE reference[1]
                   IN  all_resources[n].region
                       = IF key \in DOMAIN all_providers THEN all_providers[key]
                         ELSE "us-east-1"

(***************************************************************************)
(* Properties of the declarations with an empty body (C26).                *)
(***************************************************************************)
\* For each declaration written in the first n spans, in their order,
\* whether its body is empty.
RECURSIVE EmptyBodiesIn(_)
EmptyBodiesIn(span) ==
    IF span = <<>> THEN <<>>
    ELSE (IF IsDeclaration(Head(span)) THEN <<Head(span).k = "resource_empty">> ELSE <<>>)
         \o EmptyBodiesIn(Tail(span))

RECURSIVE EmptyBodies(_, _)
EmptyBodies(spans, n) ==
    IF n = 0 THEN <<>> ELSE EmptyBodies(spans, n - 1) \o EmptyBodiesIn(spans[n])

\* C26: a declaration with the empty body {} written in a span has its
\* record, at its place among the records of the declarations written, with
\* its type and name and the region bound to "default".
C26_EmptyBody ==
    pc \in {"assemble", "done"} =>
        LET written == Written(Spans, Len(Spans))
            empty == EmptyBodies(Spans, Len(Spans))
        IN  \A n \in 1..Len(written) :
                empty[n] =>
                    /\ Len(all_resources) = Len(written)
                    /\ all_resources[n].identifier
                       = <<written[n].resource_type, ".", written[n].resource_name>>
                    /\ all_resources[n].region
                       = IF "default" \in DOMAIN all_providers
                         THEN all_providers["default"] ELSE "us-east-1"

(***************************************************************************)
(* Inputs with text that no marker introduces: the first lines of a file   *)
(* list may come without marker, or the text may have no marker at all.    *)
(***************************************************************************)
BareForms == {<<>>} \cup {Marker(kind) : kind \in MarkerKinds}

BareBlocks ==
    {PlainResourceBlock(t, n) : t \in {"aws_vpc", "aws_subnet"}, n \in ResourceNames}
    \cup {<<AttrLine>>}

BareInit ==
    /\ IsInputOf(terraform_content, BareForms, BareBlocks)
    /\ Entered

BareSpec == BareInit /\ [][Next]_vars

(***************************************************************************)
(* Properties of the text without markers (C27).                           *)
(***************************************************************************)
\* No line of the text is a line of a marker of either convention.
NoMarkerLine(text) ==
    \A q \in 1..Len(text) :
        text[q].k \notin {"banner", "fileline", "hashfile", "hashfile_noname"}

\* C27: a text without any marker line has no span, and the run extracts no
\* resource from it whatever declarations it holds.
C27_NoMarkerNoSpan ==
    NoMarkerLine(terraform_content) =>
        /\ Spans = <<>>
        /\ all_resources = <<>>

\* The text has a resource declaration and no marker line, and the run has
\* ended with an empty list of resources.
C27_Witness ==
    /\ pc = "done"
    /\ NoMarkerLine(terraform_content)
    /\ \E q \in 1..Len(terraform_content) : IsDeclaration(terraform_content[q])
    /\ all_resources = <<>>

(***************************************************************************)
(* Properties of the subnet node without cluster (C28).                    *)
(***************************************************************************)
\* C28: in the tree returned for an input whose region r has a subnet record
\* and no cluster record, the VPC node of r has the child 'aws-subnet', that
\* child has no children, and the region has no service node and no task
\* definition node whatever service and task definition records it has.
C28_SubnetWithoutCluster ==
    pc = "done" =>
        \A r \in Regions :
            (Records("aws_subnet", r) # {} /\ Records("aws_ecs_cluster", r) = {}) =>
                /\ TreeReturned
                /\ HasPath(Top, VpcPath(r) \o <<"aws-subnet">>)
                /\ NodeAt(Top, VpcPath(r) \o <<"aws-subnet">>).children = <<>>
                /\ Occurrences(NodeAt(Top, RegionPath(r)), "aws-ecs-service") = 0
                /\ Occurrences(NodeAt(Top, RegionPath(r)), "aws-ecs-task-definition") = 0

(***************************************************************************)
(* Properties of the shape of the tree (C29).                              *)
(***************************************************************************)
\* The keys of the children of every node at or below node are distinct.
RECURSIVE UniqueKeys(_)
UniqueKeys(node) ==
    /\ \A n \in 1..Len(node.children), n2 \in 1..Len(node.children) :
           node.children[n].key = node.children[n2].key => n = n2
    /\ \A n \in 1..Len(node.children) : UniqueKeys(node.children[n].node)

\* The number of nodes on the longest chain below node.
RECURSIVE Depth(_)
Depth(node) ==
    IF node.children = <<>> THEN 0
    ELSE LET below == {Depth(node.children[n].node) : n \in 1..Len(node.children)}
         IN  1 + CHOOSE d \in below : \A d2 \in below : d2 <= d

\* The longest chain of nodes, from the root down.
LongestChain ==
    <<"aws-cloud", "region", "aws-vpc", "aws-subnet", "aws-ecs-cluster",
      "aws-ecs-service", "aws-ecs-task-definition">>

AllCategories == {"aws_vpc"} \cup EcsTypes \cup SiblingTypes

\* Some category has several records in one region.
RepeatedCategory ==
    \E r \in Regions, t \in AllCategories : Cardinality(Records(t, r)) > 1

\* C29: the call on an input with several records of one category in one
\* region returns a tree, and in it every region has at most one node of
\* each category key, the keys of the children of every node are distinct
\* (so no node is under two parents) and no chain is longer than root,
\* region, VPC, subnet, cluster, service, task definition.
C29_TreeShape ==
    (pc = "done" /\ RepeatedCategory) =>
        /\ TreeReturned
        /\ UniqueKeys(Top)
        /\ Depth(Top) <= Len(LongestChain)
        /\ \A r \in Regions, t \in AllCategories :
               HasPath(Top, RegionPath(r)) =>
                   Occurrences(NodeAt(Top, RegionPath(r)), CategoryKey(t)) <= 1

(***************************************************************************)
(* Inputs over the categories whose type names extend one another, and a   *)
(* type that has no category.                                              *)
(***************************************************************************)
CategoryTypes ==
    {"aws_vpc", "aws_route_table", "aws_route_table_association",
     "aws_iam_role", "aws_iam_role_policy_attachment", "aws_internet_gateway"}

CategoryBlocks ==
    {PlainResourceBlock(t, n) : t \in CategoryTypes, n \in ResourceNames}

CategoryInit ==
    /\ IsInputOf(terraform_content, {Marker("hash")}, CategoryBlocks)
    /\ Entered

CategorySpec == CategoryInit /\ [][Next]_vars

(***************************************************************************)
(* Properties of the records outside a category (C30).                     *)
(***************************************************************************)
\* The types whose records are to change no node but that of their own
\* category, if they have one.
ForeignTypes ==
    {"aws_internet_gateway", "aws_route_table_association",
     "aws_iam_role_policy_attachment"}

\* C30: the call on an input with a record of type aws_internet_gateway,
\* aws_route_table_association or aws_iam_role_policy_attachment returns a
\* tree; every key below a region node is the key of a category, and a
\* category node other than the VPC node is in a region only if the region
\* has a record of exactly that type, so that an association record alone
\* gives no 'aws-route-table' node, an attachment record alone gives no
\* 'aws-iam-role' node and a gateway record gives no node.
C30_ExactCategories ==
    (pc = "done" /\ \E n \in 1..Len(all_resources) :
                        all_resources[n].identifier[1] \in ForeignTypes) =>
        /\ TreeReturned
        /\ \A r \in Regions :
               HasPath(Top, RegionPath(r)) =>
                   LET keys == KeysBelow(NodeAt(Top, RegionPath(r)))
                   IN  /\ keys \subseteq {CategoryKey(t) : t \in AllCategories}
                       /\ \A t \in AllCategories \ {"aws_vpc"} :
                              CategoryKey(t) \in keys => Records(t, r) # {}

====
